---- MODULE Spec2Model ----
(***************************************************************************)
(* Model of the stage-classification engine of indianacat-automation:     *)
(* lib/common.py (conditions, commands, stages, history buffers, control   *)
(* loop), lib/ic.py and lib/mlp.py (per-application rule sets).            *)
(*                                                                         *)
(* Python values are modelled as records carrying their class, so that    *)
(* None can be compared with any of them.  A function that may raise      *)
(* returns a record [ret, raised].                                        *)
(***************************************************************************)
EXTENDS Integers, Sequences, FiniteSets, TLC

VARIABLES
    pc,             \* position of the control flow
    stages_to_test, \* the registry passed to run / get_current_stage
    screenshots,    \* the Screenshots object [_screenshots, _max_count]
    stages,         \* the Stages object [_stages, _max_count]
    files,          \* files present in the storage directory: {[path, content]}
    path,           \* handle_tick's local `path` (None after a failed grab)
    rc,             \* exit status of the last ./grab call
    stage,          \* handle_tick's local `stage`
    raised,         \* exception propagating out of the last operation
    wait,           \* the wait returned by the last handle_tick
    elapsed,        \* time() - now : time spent since the tick started
    slept,          \* duration of the last sleep(wait) of run (0 if skipped)
    executed,       \* device-bridge calls issued by the last executed command
    ticks,          \* number of ticks started (uuid source)
    op,             \* name of the last operation performed
    shotLog,        \* every entry ever passed to Screenshots.add, newest first
    stageLog,       \* every stage ever passed to Stages.add, newest first
    condition,      \* the condition whose is_met is called on its own
    met,            \* what that is_met call returned
    command         \* the command the last get_command call returned

vars == <<pc, stages_to_test, screenshots, stages, files, path, rc, stage,
          raised, wait, elapsed, slept, executed, ticks, op, shotLog,
          stageLog, condition, met, command>>

-----------------------------------------------------------------------------
(* Bounds of the model *)

MaxTicks == 6       \* ticks of the control loop explored
MaxDelay == 1       \* longest time one capture / one classification takes
MaxAdds == 3        \* add calls explored on a free-standing history buffer
MaxCount == 2       \* largest max_count of a free-standing history buffer
MaxRegistry == 2    \* longest registry built freely from the stage classes

-----------------------------------------------------------------------------
(* Program constants *)

TICK_INTERVAL == 5

SCREENSHOTS_MAX_COUNT == 5

STAGES_MAX_COUNT == 20

KEYCODE_POWER == 26

-----------------------------------------------------------------------------
(* Python basics *)

None == [class |-> "NoneType"]

NoException == "no exception"

Return(v) == [ret |-> v, raised |-> NoException]

Raise(e) == [ret |-> None, raised |-> e]

Min(a, b) == IF a < b THEN a ELSE b

Abs(a) == IF a < 0 THEN 0 - a ELSE a

\* seq[:n]
Take(seq, n) == SubSeq(seq, 1, Min(n, Len(seq)))

\* seq[n:]
Drop(seq, n) == SubSeq(seq, Min(n, Len(seq)) + 1, Len(seq))

timedelta_minutes(m) == [class |-> "timedelta", seconds |-> m * 60]

-----------------------------------------------------------------------------
(* Images.  A bitmap is 2560x1600; the model follows the pixels at the    *)
(* corners of the rectangles the rule sets compare, all other pixels are   *)
(* equal in every image.  A colour is a number.                            *)

Pixels ==
    { <<0, 0>>, <<2470, 18>>, <<998, 1520>>, <<2366, 636>>, <<2388, 649>>,
      <<800, 1060>>, <<2432, 1193>>, <<814, 478>>, <<503, 1363>>, <<62, 929>>,
      <<48, 280>>, <<898, 306>>, <<1012, 222>>, <<1806, 130>>, <<386, 64>>,
      <<592, 62>>, <<1031, 327>>, <<850, 478>>, <<45, 45>>, <<2399, 1533>>,
      <<146, 636>>, <<2332, 674>> }

Image(px) == [class |-> "Image", mode |-> "RGB", px |-> px]

Solid(colour) == Image([p \in Pixels |-> colour])

\* Image.crop((left, upper, right, lower)): the pixels with
\* left <= x < right and upper <= y < lower
crop(image, area) ==
    [class |-> "Image", mode |-> image.mode,
     px |-> [p \in {q \in DOMAIN image.px :
                        /\ area[1] <= q[1] /\ q[1] < area[3]
                        /\ area[2] <= q[2] /\ q[2] < area[4]}
               |-> image.px[p]]]

\* ImageChops.difference: |a - b| pixel by pixel
difference(a, b) ==
    [class |-> "Image", mode |-> a.mode,
     px |-> [p \in (DOMAIN a.px) \cap (DOMAIN b.px) |-> Abs(a.px[p] - b.px[p])]]

\* Image.getbbox: the region of non-zero pixels, falsy (empty) when there is none
getbbox(image) == {p \in DOMAIN image.px : image.px[p] # 0}

\* create_image: open the file content and convert it to RGB (alpha is dropped)
create_image(content) == [class |-> "Image", mode |-> "RGB", px |-> content.px]

\* the content ./grab writes: an RGBA png of the screen
Png(image) == [class |-> "PngFile", mode |-> "RGBA", px |-> image.px, alpha |-> 255]

\* an image equal to `image` except inside the rectangle, where it equals `other`
Paint(image, other, left, top, width, height) ==
    Image([p \in Pixels |->
             IF /\ left <= p[1] /\ p[1] < left + width
                /\ top <= p[2] /\ p[2] < top + height
             THEN other.px[p] ELSE image.px[p]])

-----------------------------------------------------------------------------
(* Reference library: create_references().  The reference bitmaps are     *)
(* inputs; here each is a solid image of its own colour, power_off black.  *)

ReferenceKeys ==
    << "common/power_off", "common/desktop", "common/ad", "common/ad_unity",
       "common/ad_unity_2", "ic/daily_bonus", "ic/daily_reward",
       "ic/start_bonus", "ic/start", "ic/bonus", "ic/bonus_reward",
       "ic/big_luck", "ic/bank", "ic/bank_no_button", "ic/offline",
       "ic/video_not_available", "mlp/next_episode", "mlp/interactive_ad",
       "mlp/another_ad", "mlp/another_ad_rotated" >>

create_references ==
    [key \in {ReferenceKeys[i] : i \in 1..Len(ReferenceKeys)} |->
        Solid((CHOOSE i \in 1..Len(ReferenceKeys) : ReferenceKeys[i] = key) - 1)]

\* a frame showing nothing any reference shows
Noise == Solid(Len(ReferenceKeys) + 1)

\* a second frame of that kind
Noise2 == Solid(Len(ReferenceKeys) + 2)

-----------------------------------------------------------------------------
(* Screenshots and Stages: the read side (the objects are records         *)
(* [_screenshots, _max_count] and [_stages, _max_count])                   *)

Screenshots(max_count) == [_screenshots |-> <<>>, _max_count |-> max_count]

\* Screenshots._get_by_index: self._screenshots[index][1], None on IndexError
\* (Python indexes from 0)
Screenshots_get_by_index(self, index) ==
    IF index + 1 <= Len(self._screenshots)
    THEN self._screenshots[index + 1][2]
    ELSE None

Screenshots_last(self) == Screenshots_get_by_index(self, 0)

\* a previous that answers with the newest screenshot
Screenshots_previous_newest(self) == Screenshots_get_by_index(self, 0)

Screenshots_previous(self) == Screenshots_get_by_index(self, 1)

Stages(max_count) == [_stages |-> <<>>, _max_count |-> max_count]

Stages_get_by_index(self, index) ==
    IF index + 1 <= Len(self._stages)
    THEN self._stages[index + 1]
    ELSE None

\* a previous that reads one entry too far back
Stages_previous_third(self) == Stages_get_by_index(self, 2)

\* a previous that reads the newest entry
Stages_previous_newest(self) == Stages_get_by_index(self, 0)

Stages_previous(self) == Stages_get_by_index(self, 1)

-----------------------------------------------------------------------------
(* Condition engine *)

TrueCondition == [class |-> "TrueCondition"]

\* test.py: the condition whose is_met returns False
FalseCondition == [class |-> "_Condition"]

\* a NotCondition that does not negate
NotCondition_dropped(cond) == cond

NotCondition(cond) == [class |-> "NotCondition", _condition |-> cond]

AndCondition(conditions) == [class |-> "AndCondition", _conditions |-> conditions]

OrCondition(conditions) == [class |-> "OrCondition", _conditions |-> conditions]

SimilarScreenshotCondition(reference, left, top, width, height) ==
    [class |-> "SimilarScreenshotCondition", _reference |-> reference,
     _left |-> left, _top |-> top, _width |-> width, _height |-> height]

SameScreenshotCondition == [class |-> "SameScreenshotCondition"]

\* an is_met that passes (left, top, width, height) to crop as the area
SimilarScreenshotCondition_is_met_size_as_corner(self, shots, stgs) ==
    LET area == <<self._left, self._top, self._width, self._height>>
        last == Screenshots_last(shots)
    IN  IF last = None
        THEN Raise("AttributeError")
        ELSE Return(getbbox(difference(crop(last, area),
                                       crop(self._reference, area))) = {})

\* SimilarScreenshotCondition.is_met: screenshots.last.crop raises
\* AttributeError when screenshots.last is None
SimilarScreenshotCondition_is_met(self, shots, stgs) ==
    LET area == <<self._left, self._top,
                  self._left + self._width, self._top + self._height>>
        last == Screenshots_last(shots)
    IN  IF last = None
        THEN Raise("AttributeError")
        ELSE Return(getbbox(difference(crop(last, area),
                                       crop(self._reference, area))) = {})

\* an is_met that compares the newest screenshot with the oldest one
SameScreenshotCondition_is_met_oldest(self, shots, stgs) ==
    IF Screenshots_previous(shots) = None
    THEN Return(FALSE)
    ELSE Return(getbbox(difference(Screenshots_last(shots),
                                   Screenshots_get_by_index(shots,
                                       Len(shots._screenshots) - 1))) = {})

SameScreenshotCondition_is_met(self, shots, stgs) ==
    IF Screenshots_previous(shots) = None
    THEN Return(FALSE)
    ELSE Return(getbbox(difference(Screenshots_last(shots),
                                   Screenshots_previous(shots))) = {})

RECURSIVE is_met(_, _, _)
RECURSIVE all_is_met(_, _, _, _)
RECURSIVE any_is_met(_, _, _, _)

\* an AndCondition that is satisfied by one true sub-condition
all_is_met_one_suffices(conditions, i, shots, stgs) ==
    any_is_met(conditions, i, shots, stgs)

\* all(c.is_met(...) for c in conditions[i:]): in order, stops at the first
\* False, an exception propagates
all_is_met(conditions, i, shots, stgs) ==
    IF i > Len(conditions)
    THEN Return(TRUE)
    ELSE LET r == is_met(conditions[i], shots, stgs)
         IN  IF r.raised # NoException THEN r
             ELSE IF ~r.ret THEN Return(FALSE)
             ELSE all_is_met(conditions, i + 1, shots, stgs)

\* any(c.is_met(...) for c in conditions[i:]): in order, stops at the first True
any_is_met(conditions, i, shots, stgs) ==
    IF i > Len(conditions)
    THEN Return(FALSE)
    ELSE LET r == is_met(conditions[i], shots, stgs)
         IN  IF r.raised # NoException THEN r
             ELSE IF r.ret THEN Return(TRUE)
             ELSE any_is_met(conditions, i + 1, shots, stgs)

is_met(self, shots, stgs) ==
    CASE self.class = "TrueCondition" -> Return(TRUE)
      [] self.class = "_Condition" -> Return(FALSE)
      [] self.class = "NotCondition" ->
            LET r == is_met(self._condition, shots, stgs)
            IN  IF r.raised # NoException THEN r ELSE Return(~r.ret)
      [] self.class = "AndCondition" -> all_is_met(self._conditions, 1, shots, stgs)
      [] self.class = "OrCondition" -> any_is_met(self._conditions, 1, shots, stgs)
      [] self.class = "SimilarScreenshotCondition" ->
            SimilarScreenshotCondition_is_met(self, shots, stgs)
      [] self.class = "SameScreenshotCondition" ->
            SameScreenshotCondition_is_met(self, shots, stgs)

-----------------------------------------------------------------------------
(* Command set.  execute(command, adb) returns the device-bridge calls    *)
(* and sleeps performed, in order; adb[k] is what happens to the k-th      *)
(* `call`: "ok" (status 0), "failed" (non-zero status, ignored by the      *)
(* code) or "unavailable" (the executable cannot be run: call raises).     *)

NoOpCommand == [class |-> "NoOpCommand"]

BatchCommand(commands) == [class |-> "BatchCommand", _commands |-> commands]

StartGameCommand(package_name, activity_name) ==
    [class |-> "StartGameCommand", _package_name |-> package_name,
     _activity_name |-> activity_name]

StopGameCommand(package_name) ==
    [class |-> "StopGameCommand", _package_name |-> package_name]

ClickCommand(x, y) == [class |-> "ClickCommand", _x |-> x, _y |-> y]

TogglePowerCommand == [class |-> "TogglePowerCommand"]

WaitCommand(duration) == [class |-> "WaitCommand", _duration |-> duration]

AdbStatuses == {"ok", "failed", "unavailable"}

\* subprocess.call([ADB, ...]) appended to the run so far
adb_call(run, argv, adb) ==
    LET k == Cardinality({i \in 1..Len(run.calls) : run.calls[i].call = "adb"}) + 1
        status == adb[Min(k, Len(adb))]
    IN  IF status = "unavailable"
        THEN [run EXCEPT !.raised = "OSError"]
        ELSE [run EXCEPT !.calls = Append(@, [call |-> "adb", argv |-> argv,
                                                status |-> status])]

RECURSIVE execute_from(_, _, _)
RECURSIVE execute_batch(_, _, _, _)

\* for command in self._commands[i:]: command.execute()
execute_batch(commands, i, run, adb) ==
    IF i > Len(commands) \/ run.raised # NoException
    THEN run
    ELSE execute_batch(commands, i + 1, execute_from(commands[i], run, adb), adb)

\* command.execute() continuing the run so far
execute_from(self, run, adb) ==
    CASE self.class = "NoOpCommand" -> run
      [] self.class = "BatchCommand" -> execute_batch(self._commands, 1, run, adb)
      [] self.class = "StartGameCommand" ->
            adb_call(run, [cmd |-> "am start", package |-> self._package_name,
                           activity |-> self._activity_name], adb)
      [] self.class = "StopGameCommand" ->
            adb_call(run, [cmd |-> "am force-stop", package |-> self._package_name], adb)
      [] self.class = "ClickCommand" ->
            adb_call(run, [cmd |-> "input tap", x |-> self._x, y |-> self._y], adb)
      [] self.class = "TogglePowerCommand" ->
            adb_call(run, [cmd |-> "input keyevent", code |-> KEYCODE_POWER], adb)
      [] self.class = "WaitCommand" ->
            [run EXCEPT !.calls = Append(@, [call |-> "sleep",
                                             seconds |-> self._duration.seconds]),
                        !.slept = @ + self._duration.seconds]

execute(self, adb) ==
    execute_from(self, [calls |-> <<>>, slept |-> 0, raised |-> NoException], adb)

-----------------------------------------------------------------------------
(* Stages.  A stage instance is a record of its class and of the commands  *)
(* its constructor received; self._references is create_references.        *)

Stage(class) == [class |-> class]

StageWithStart(class, start_game_command) ==
    [class |-> class, _start_game_command |-> start_game_command]

StageWithStop(class, stop_game_command) ==
    [class |-> class, _stop_game_command |-> stop_game_command]

Similar(key, left, top, width, height) ==
    SimilarScreenshotCondition(create_references[key], left, top, width, height)

\* Stage.get_condition of every stage class
get_condition(self) ==
    CASE self.class = "UnknownStage" -> TrueCondition
      [] self.class = "AlwaysFalseStage" -> FalseCondition
      [] self.class = "PowerOffStage" -> Similar("common/power_off", 0, 0, 2560, 1600)
      [] self.class = "DesktopStage" -> Similar("common/desktop", 2470, 18, 82, 1570)
      [] self.class = "UnknownAdStage" ->
            AndCondition(<< Similar("common/ad", 998, 1520, 568, 73),
                            SameScreenshotCondition >>)
      [] self.class = "UnityAdStage" ->
            AndCondition(<< OrCondition(<< Similar("common/ad_unity", 2366, 636, 84, 302),
                                           Similar("common/ad_unity_2", 2388, 649, 74, 291) >>),
                            SameScreenshotCondition >>)
      [] self.class = "DailyBonusStage" ->
            AndCondition(<< Similar("ic/daily_bonus", 800, 1060, 1030, 108),
                            Similar("ic/daily_bonus", 2432, 1193, 82, 82) >>)
      [] self.class = "DailyBonusNotForFriendStage" ->
            AndCondition(<< Similar("ic/daily_bonus", 800, 1060, 1030, 108),
                            NotCondition(Similar("ic/daily_bonus", 2432, 1193, 82, 82)) >>)
      [] self.class = "DailyRewardStage" -> Similar("ic/daily_reward", 814, 478, 104, 654)
      [] self.class = "StartBonusStage" -> Similar("ic/start_bonus", 503, 1363, 31, 112)
      [] self.class = "StartStage" ->
            AndCondition(<< Similar("ic/start", 62, 929, 84, 84),
                            NotCondition(Similar("ic/start_bonus", 503, 1363, 31, 112)) >>)
      [] self.class = "BonusStage" -> Similar("ic/bonus", 48, 280, 188, 1294)
      [] self.class = "BonusRewardStage" -> Similar("ic/bonus_reward", 898, 306, 114, 1000)
      [] self.class = "BigLuckStage" -> Similar("ic/big_luck", 1012, 222, 662, 808)
      [] self.class = "BankStage" -> Similar("ic/bank", 1806, 130, 286, 1336)
      [] self.class = "BankTimerStage" ->
            AndCondition(<< Similar("ic/bank", 386, 64, 144, 1472),
                            NotCondition(Similar("ic/bank", 1806, 130, 286, 1336)) >>)
      [] self.class = "BankNoButtonStage" -> Similar("ic/bank_no_button", 592, 62, 154, 1470)
      [] self.class = "OfflineStage" -> Similar("ic/offline", 1031, 327, 355, 948)
      [] self.class = "VideoNotAvailableStage" ->
            Similar("ic/video_not_available", 1031, 327, 355, 948)
      [] self.class = "NextEpisodeStage" -> Similar("mlp/next_episode", 850, 478, 318, 624)
      [] self.class = "InteractiveAdStage" ->
            AndCondition(<< Similar("mlp/interactive_ad", 45, 45, 6, 6),
                            Similar("mlp/interactive_ad", 2399, 1533, 7, 10) >>)
      [] self.class = "AnotherAdStage" ->
            AndCondition(<< OrCondition(<< Similar("mlp/another_ad", 146, 636, 80, 294),
                                           Similar("mlp/another_ad_rotated", 2332, 674, 84, 284) >>),
                            SameScreenshotCondition >>)

\* isinstance(obj, classes)
isinstance(obj, classes) == obj.class \in classes

\* a get_command without the case of a previous StartStage
BankTimerStage_get_command_no_start_case(self, stgs) ==
    IF isinstance(Stages_previous(stgs), {"UnknownAdStage", "UnityAdStage"})
    THEN BatchCommand(<< TogglePowerCommand, WaitCommand(timedelta_minutes(30)) >>)
    ELSE ClickCommand(1478, 446)

\* a get_command that has nothing to return without a previous stage
BankTimerStage_get_command_needs_previous(self, stgs) ==
    IF Stages_previous(stgs) = None
    THEN None
    ELSE IF isinstance(Stages_previous(stgs), {"UnknownAdStage", "UnityAdStage"})
    THEN BatchCommand(<< TogglePowerCommand, WaitCommand(timedelta_minutes(30)) >>)
    ELSE IF isinstance(Stages_previous(stgs), {"StartStage"})
    THEN BatchCommand(<< TogglePowerCommand, WaitCommand(timedelta_minutes(10)) >>)
    ELSE ClickCommand(1478, 446)

\* BankTimerStage.get_command
BankTimerStage_get_command(self, stgs) ==
    IF isinstance(Stages_previous(stgs), {"UnknownAdStage", "UnityAdStage"})
    THEN BatchCommand(<< TogglePowerCommand, WaitCommand(timedelta_minutes(30)) >>)
    ELSE IF isinstance(Stages_previous(stgs), {"StartStage"})
    THEN BatchCommand(<< TogglePowerCommand, WaitCommand(timedelta_minutes(10)) >>)
    ELSE ClickCommand(1478, 446)

\* Stage.get_command of every stage class
get_command(self, stgs) ==
    CASE self.class = "UnknownStage" -> NoOpCommand
      [] self.class = "AlwaysFalseStage" -> NoOpCommand
      [] self.class = "PowerOffStage" -> TogglePowerCommand
      [] self.class = "DesktopStage" -> self._start_game_command
      [] self.class = "UnknownAdStage" -> self._start_game_command
      [] self.class = "UnityAdStage" -> self._start_game_command
      [] self.class = "DailyBonusStage" -> ClickCommand(365, 2474)
      [] self.class = "DailyBonusNotForFriendStage" -> ClickCommand(1142, 2433)
      [] self.class = "DailyRewardStage" -> ClickCommand(774, 1624)
      [] self.class = "StartBonusStage" -> ClickCommand(131, 405)
      [] self.class = "StartStage" -> ClickCommand(630, 120)
      [] self.class = "BonusStage" -> ClickCommand(800, 2362)
      [] self.class = "BonusRewardStage" -> ClickCommand(784, 1538)
      [] self.class = "BigLuckStage" -> ClickCommand(1414, 400)
      [] self.class = "BankStage" -> ClickCommand(800, 1900)
      [] self.class = "BankTimerStage" -> BankTimerStage_get_command(self, stgs)
      [] self.class = "BankNoButtonStage" ->
            BatchCommand(<< self._stop_game_command, TogglePowerCommand,
                            WaitCommand(timedelta_minutes(10)) >>)
      [] self.class = "OfflineStage" -> ClickCommand(800, 1430)
      [] self.class = "VideoNotAvailableStage" ->
            BatchCommand(<< self._stop_game_command, TogglePowerCommand,
                            WaitCommand(timedelta_minutes(10)) >>)
      [] self.class = "NextEpisodeStage" -> ClickCommand(640, 1530)
      [] self.class = "InteractiveAdStage" -> ClickCommand(1552, 48)
      [] self.class = "AnotherAdStage" -> ClickCommand(1500, 90)

UnknownStage == Stage("UnknownStage")

\* a stage whose condition is test.py's false condition
AlwaysFalseStage == Stage("AlwaysFalseStage")

\* a rule set that scans BankTimerStage before BankStage
ic_get_stages_to_test_timer_first ==
    LET package_name == "com.playflock.indianacat"
        start_game_command ==
            StartGameCommand(package_name,
                             "unity.pfplugins.com.activitybridge.UnityActivityOverrider")
        stop_game_command == StopGameCommand(package_name)
    IN  << Stage("PowerOffStage"),
           StageWithStart("DesktopStage", start_game_command),
           Stage("DailyBonusStage"),
           Stage("DailyBonusNotForFriendStage"),
           Stage("DailyRewardStage"),
           Stage("StartBonusStage"),
           Stage("StartStage"),
           Stage("BonusStage"),
           Stage("BonusRewardStage"),
           Stage("BigLuckStage"),
           Stage("BankTimerStage"),
           Stage("BankStage"),
           StageWithStop("BankNoButtonStage", stop_game_command),
           Stage("OfflineStage"),
           StageWithStop("VideoNotAvailableStage", stop_game_command),
           StageWithStart("UnknownAdStage", start_game_command),
           StageWithStart("UnityAdStage", start_game_command),
           UnknownStage >>

\* lib/ic.py get_stages_to_test
ic_get_stages_to_test ==
    LET package_name == "com.playflock.indianacat"
        start_game_command ==
            StartGameCommand(package_name,
                             "unity.pfplugins.com.activitybridge.UnityActivityOverrider")
        stop_game_command == StopGameCommand(package_name)
    IN  << Stage("PowerOffStage"),
           StageWithStart("DesktopStage", start_game_command),
           Stage("DailyBonusStage"),
           Stage("DailyBonusNotForFriendStage"),
           Stage("DailyRewardStage"),
           Stage("StartBonusStage"),
           Stage("StartStage"),
           Stage("BonusStage"),
           Stage("BonusRewardStage"),
           Stage("BigLuckStage"),
           Stage("BankStage"),
           Stage("BankTimerStage"),
           StageWithStop("BankNoButtonStage", stop_game_command),
           Stage("OfflineStage"),
           StageWithStop("VideoNotAvailableStage", stop_game_command),
           StageWithStart("UnknownAdStage", start_game_command),
           StageWithStart("UnityAdStage", start_game_command),
           UnknownStage >>

\* lib/mlp.py get_stages_to_test
mlp_get_stages_to_test ==
    LET start_game_command == StartGameCommand("com.nevosoft.mylittleplanet", ".Main")
    IN  << Stage("NextEpisodeStage"),
           Stage("InteractiveAdStage"),
           Stage("AnotherAdStage"),
           StageWithStart("UnityAdStage", start_game_command),
           UnknownStage >>

-----------------------------------------------------------------------------
(* History buffers: the write side, and the storage directory *)

Path(uuid) == [class |-> "str", uuid |-> uuid]

\* the path '' the tests pass to Screenshots.add: no such file
EmptyPath == [class |-> "str", uuid |-> 0]

exists(fs, p) == \E f \in fs : f.path = p

\* os.remove(path): FileNotFoundError when there is no such file
\* an os.remove that leaves the file in place
os_remove_keeps_file(fs, p) == [fs |-> fs, raised |-> NoException]

os_remove(fs, p) ==
    IF exists(fs, p)
    THEN [fs |-> {f \in fs : f.path # p}, raised |-> NoException]
    ELSE [fs |-> fs, raised |-> "FileNotFoundError"]

RECURSIVE remove_all(_, _, _)

\* for path, _ in entries[i:]: os.remove(path)
remove_all(entries, i, fs) ==
    IF i > Len(entries)
    THEN [fs |-> fs, raised |-> NoException]
    ELSE LET r == os_remove(fs, entries[i][1])
         IN  IF r.raised # NoException THEN r
             ELSE remove_all(entries, i + 1, r.fs)

\* the new entry is appended at the end and the oldest entries are kept
Screenshots_add_at_end(self, p, screenshot, fs) ==
    LET inserted == self._screenshots \o <<<<p, screenshot>>>>
        removal == remove_all(Drop(inserted, self._max_count), 1, fs)
    IN  IF removal.raised # NoException
        THEN [self |-> [self EXCEPT !._screenshots = inserted],
              fs |-> removal.fs, raised |-> removal.raised]
        ELSE [self |-> [self EXCEPT !._screenshots = Take(inserted, self._max_count)],
              fs |-> removal.fs, raised |-> NoException]

\* Screenshots.add: returns the object, the directory and the exception raised
Screenshots_add(self, p, screenshot, fs) ==
    LET inserted == <<<<p, screenshot>>>> \o self._screenshots
        removal == remove_all(Drop(inserted, self._max_count), 1, fs)
    IN  IF removal.raised # NoException
        THEN [self |-> [self EXCEPT !._screenshots = inserted],
              fs |-> removal.fs, raised |-> removal.raised]
        ELSE [self |-> [self EXCEPT !._screenshots = Take(inserted, self._max_count)],
              fs |-> removal.fs, raised |-> NoException]

\* the truncation keeps one stage too many
Stages_add_keeps_one_more(self, stg) ==
    [self EXCEPT !._stages = Take(<<stg>> \o self._stages, self._max_count + 1)]

\* Stages.add
Stages_add(self, stg) ==
    [self EXCEPT !._stages = Take(<<stg>> \o self._stages, self._max_count)]

-----------------------------------------------------------------------------
(* Capture and classification *)

\* the exit status of ./grab is ignored
grab_screenshot_unchecked(p, status) == p

\* grab_screenshot: None when ./grab exits with a non-zero status
grab_screenshot(p, status) == IF status # 0 THEN None ELSE p

RECURSIVE get_current_stage_from(_, _, _, _)

\* for stage in stages_to_test[i:]: ... ; raise RuntimeError('stage not defined')
get_current_stage_from(registry, i, shots, stgs) ==
    IF i > Len(registry)
    THEN Raise("RuntimeError")
    ELSE LET r == is_met(get_condition(registry[i]), shots, stgs)
         IN  IF r.raised # NoException THEN Raise(r.raised)
             ELSE IF r.ret THEN Return(registry[i])
             ELSE get_current_stage_from(registry, i + 1, shots, stgs)

RECURSIVE get_current_stage_last_from(_, _, _, _)
\* the scan keeps going after a match: the last matching stage wins
get_current_stage_last_from(registry, i, shots, stgs) ==
    IF i < 1
    THEN Raise("RuntimeError")
    ELSE LET r == is_met(get_condition(registry[i]), shots, stgs)
         IN  IF r.raised # NoException THEN Raise(r.raised)
             ELSE IF r.ret THEN Return(registry[i])
             ELSE get_current_stage_last_from(registry, i - 1, shots, stgs)

get_current_stage_last(registry, shots, stgs) ==
    get_current_stage_last_from(registry, Len(registry), shots, stgs)

\* the scan stops one stage short of the end of the registry
get_current_stage_short(registry, shots, stgs) ==
    get_current_stage_from(Take(registry, Len(registry) - 1), 1, shots, stgs)

\* no match yields None instead of raising
get_current_stage_or_none(registry, shots, stgs) ==
    LET r == get_current_stage_from(registry, 1, shots, stgs)
    IN  IF r.raised = "RuntimeError" THEN Return(None) ELSE r

\* no match yields the last registered stage instead of raising
get_current_stage_or_default(registry, shots, stgs) ==
    LET r == get_current_stage_from(registry, 1, shots, stgs)
    IN  IF r.raised = "RuntimeError" /\ Len(registry) > 0
        THEN Return(registry[Len(registry)])
        ELSE r

get_current_stage(registry, shots, stgs) ==
    get_current_stage_from(registry, 1, shots, stgs)

\* the time spent in the tick is subtracted after a recognized stage too
handle_tick_wait_remaining(stg, time_spent) == TICK_INTERVAL - time_spent

\* handle_tick lines 351-357: the wait handle_tick returns after classification
handle_tick_wait(stg, time_spent) ==
    IF stg # None
    THEN TICK_INTERVAL
    ELSE TICK_INTERVAL - time_spent

\* a run that sleeps only for waits longer than the tick interval
run_sleep_long_only(w) == IF w > TICK_INTERVAL THEN w ELSE 0

\* run lines 367-369: sleep(wait) only if wait > 0; the time slept
run_sleep(w) == IF w > 0 THEN w ELSE 0

-----------------------------------------------------------------------------
(* Inputs of the control loop *)

StartFrame == Paint(Noise, create_references["ic/start"], 62, 929, 84, 84)

BankTimerFrame == Paint(Noise, create_references["ic/bank"], 386, 64, 144, 1472)

BankFrame == Paint(Noise, create_references["ic/bank"], 0, 0, 2560, 1600)

BankNoButtonFrame ==
    Paint(Noise, create_references["ic/bank_no_button"], 592, 62, 154, 1470)

NextEpisodeFrame ==
    Paint(Noise, create_references["mlp/next_episode"], 850, 478, 318, 624)

AnotherAdFrame ==
    Paint(Noise, create_references["mlp/another_ad"], 146, 636, 80, 294)

\* what ./grab may capture
LoopFrames == {Png(BankNoButtonFrame), Png(Noise)}

\* an incomplete rule set: the ic rule set without its fallback
ic_without_fallback == Take(ic_get_stages_to_test, Len(ic_get_stages_to_test) - 1)

LoopRegistries == {ic_get_stages_to_test, ic_without_fallback}

\* ./grab: exit status and whether the png was written
GrabOutcomes ==
    { [status |-> 0, written |-> TRUE],
      [status |-> 0, written |-> FALSE],
      [status |-> 1, written |-> FALSE] }

\* the device-bridge calls of the longest command of the rule sets
\* (BankNoButtonStage: stop the game, toggle the power)
MaxCalls == 2

AdbOutcomes == [1..MaxCalls -> AdbStatuses]

content_of(fs, p) == (CHOOSE f \in fs : f.path = p).content

-----------------------------------------------------------------------------
(* The control loop: run and handle_tick, one action per step *)

Init ==
    /\ condition = None
    /\ met = FALSE
    /\ command = None
    /\ pc = "run"
    /\ stages_to_test \in LoopRegistries
    /\ screenshots = Screenshots(SCREENSHOTS_MAX_COUNT)
    /\ stages = Stages(STAGES_MAX_COUNT)
    /\ files = {}
    /\ path = None
    /\ rc = 0
    /\ stage = None
    /\ raised = NoException
    /\ wait = 0
    /\ elapsed = 0
    /\ slept = 0
    /\ executed = <<>>
    /\ ticks = 0
    /\ op = "run"
    /\ shotLog = <<>>
    /\ stageLog = <<>>

\* handle_tick lines 344-345: now = time(); path = grab_screenshot(directory)
GrabFrom(frames, maxTicks) ==
    /\ UNCHANGED <<condition, met, command>>
    /\ pc = "run"
    /\ ticks < maxTicks
    /\ \E outcome \in GrabOutcomes, content \in frames, d \in 0..MaxDelay :
          LET p == Path(ticks + 1)
          IN  /\ files' = IF outcome.written
                          THEN files \cup {[path |-> p, content |-> content]}
                          ELSE files
              /\ rc' = outcome.status
              /\ path' = grab_screenshot(p, outcome.status)
              /\ elapsed' = d
    /\ ticks' = ticks + 1
    /\ pc' = "grabbed"
    /\ op' = "grab_screenshot"
    /\ stage' = None
    /\ executed' = <<>>
    /\ UNCHANGED <<stages_to_test, screenshots, stages, raised, wait, slept,
                   shotLog, stageLog>>

Grab == GrabFrom(LoopFrames, MaxTicks)

\* handle_tick lines 346-347: if not path: return ..., TICK_INTERVAL
ReturnNoPath ==
    /\ UNCHANGED <<condition, met, command>>
    /\ pc = "grabbed"
    /\ path = None
    /\ wait' = TICK_INTERVAL
    /\ pc' = "returned"
    /\ op' = "handle_tick"
    /\ UNCHANGED <<stages_to_test, screenshots, stages, files, path, rc, stage,
                   raised, elapsed, slept, executed, ticks, shotLog, stageLog>>

\* handle_tick lines 348-349: screenshot = create_image(path);
\* screenshots.add(path, screenshot).  Another process may have removed the
\* file about to be evicted.
AddScreenshot ==
    /\ UNCHANGED <<condition, met, command>>
    /\ pc = "grabbed"
    /\ path # None
    /\ IF ~exists(files, path)
       THEN /\ raised' = "FileNotFoundError"
            /\ pc' = "raised"
            /\ op' = "create_image"
            /\ UNCHANGED <<screenshots, files, shotLog>>
       ELSE \E lost \in {{}} \cup
                   {{f \in files : Len(screenshots._screenshots) >= screenshots._max_count
                        /\ f.path = screenshots._screenshots[screenshots._max_count][1]}} :
               LET screenshot == create_image(content_of(files, path))
                   r == Screenshots_add(screenshots, path, screenshot, files \ lost)
               IN  /\ screenshots' = r.self
                   /\ files' = r.fs
                   /\ raised' = r.raised
                   /\ pc' = IF r.raised # NoException THEN "raised" ELSE "added"
                   /\ op' = "Screenshots.add"
                   /\ shotLog' = <<<<path, screenshot>>>> \o shotLog
    /\ UNCHANGED <<stages_to_test, stages, path, rc, stage, wait, elapsed, slept,
                   executed, ticks, stageLog>>

\* handle_tick line 350: stage = get_current_stage(stages_to_test, screenshots, stages)
Classify ==
    /\ UNCHANGED <<condition, met, command>>
    /\ pc = "added"
    /\ LET r == get_current_stage(stages_to_test, screenshots, stages)
       IN  /\ stage' = r.ret
           /\ raised' = r.raised
           /\ pc' = IF r.raised # NoException THEN "raised" ELSE "classified"
    /\ \E d \in 0..MaxDelay : elapsed' = elapsed + d
    /\ op' = "get_current_stage"
    /\ UNCHANGED <<stages_to_test, screenshots, stages, files, path, rc, wait,
                   slept, executed, ticks, shotLog, stageLog>>

\* handle_tick lines 351-357: if stage: stages.add(stage);
\* stage.get_command(stages).execute(); return ..., TICK_INTERVAL
\* else: return ..., TICK_INTERVAL - (time() - now)
Act ==
    /\ UNCHANGED <<condition, met, command>>
    /\ pc = "classified"
    /\ IF stage # None
       THEN \E adb \in AdbOutcomes :
               LET stgs == Stages_add(stages, stage)
                   res == execute(get_command(stage, stgs), adb)
               IN  /\ stages' = stgs
                   /\ stageLog' = <<stage>> \o stageLog
                   /\ executed' = res.calls
                   /\ elapsed' = elapsed + res.slept
                   /\ raised' = res.raised
                   /\ IF res.raised # NoException
                      THEN pc' = "raised" /\ wait' = wait
                      ELSE pc' = "returned" /\ wait' = handle_tick_wait(stage, elapsed')
       ELSE /\ wait' = handle_tick_wait(stage, elapsed)
            /\ pc' = "returned"
            /\ UNCHANGED <<stages, stageLog, executed, elapsed, raised>>
    /\ op' = "handle_tick"
    /\ UNCHANGED <<stages_to_test, screenshots, files, path, rc, stage, slept,
                   ticks, shotLog>>

\* a run whose next capture is started while the sleep is still going on
Sleep_overlapping ==
    /\ UNCHANGED <<condition, met, command>>
    /\ pc = "returned"
    /\ ticks < MaxTicks
    /\ slept' = run_sleep(wait)
    /\ ticks' = ticks + 1
    /\ pc' = "grabbed"
    /\ op' = "grab_screenshot"
    /\ elapsed' = 0
    /\ path' = None
    /\ stage' = None
    /\ rc' = 1
    /\ executed' = <<>>
    /\ UNCHANGED <<stages_to_test, screenshots, stages, files, raised, wait,
                   shotLog, stageLog>>

\* run lines 366-369: if wait > 0: sleep(wait); then the next iteration
Sleep ==
    /\ UNCHANGED <<condition, met, command>>
    /\ pc = "returned"
    /\ slept' = run_sleep(wait)
    /\ pc' = "run"
    /\ op' = "sleep"
    /\ elapsed' = 0
    /\ path' = None
    /\ stage' = None
    /\ rc' = 0
    /\ executed' = <<>>
    /\ UNCHANGED <<stages_to_test, screenshots, stages, files, raised, wait,
                   ticks, shotLog, stageLog>>

\* run line 361: an exception leaves the `with TemporaryDirectory()` block,
\* which removes the directory, and ends run
Unwind ==
    /\ UNCHANGED <<condition, met, command>>
    /\ pc = "raised"
    /\ pc' = "exited"
    /\ files' = {}
    /\ op' = "TemporaryDirectory.__exit__"
    /\ UNCHANGED <<stages_to_test, screenshots, stages, path, rc, stage, raised,
                   wait, elapsed, slept, executed, ticks, shotLog, stageLog>>

Next ==
    \/ Grab
    \/ ReturnNoPath
    \/ AddScreenshot
    \/ Classify
    \/ Act
    \/ Sleep
    \/ Unwind

Spec == Init /\ [][Next]_vars

-----------------------------------------------------------------------------
(* Free-standing history buffers: Screenshots(m) and Stages(n) receiving   *)
(* any sequence of add calls, as the fixtures of test.py build them.  The  *)
(* caller passes either the path of a file it stored or '' (no file).      *)

HistoryImages == {Noise, Noise2}

HistoryStages == {UnknownStage, Stage("StartStage")}

InitHistory ==
    /\ condition = None
    /\ met = FALSE
    /\ command = None
    /\ pc = "history"
    /\ stages_to_test = <<>>
    /\ \E m \in 1..MaxCount : screenshots = Screenshots(m)
    /\ \E n \in 1..MaxCount : stages = Stages(n)
    /\ files = {}
    /\ path = None
    /\ rc = 0
    /\ stage = None
    /\ raised = NoException
    /\ wait = 0
    /\ elapsed = 0
    /\ slept = 0
    /\ executed = <<>>
    /\ ticks = 0
    /\ op = "init"
    /\ shotLog = <<>>
    /\ stageLog = <<>>

\* screenshots.add(path, image)
HistoryAddScreenshot ==
    /\ UNCHANGED <<condition, met, command>>
    /\ pc = "history"
    /\ Len(shotLog) < MaxAdds
    /\ \E image \in HistoryImages, stored \in BOOLEAN :
          LET p == IF stored THEN Path(Len(shotLog) + 1) ELSE EmptyPath
              fs == IF stored THEN files \cup {[path |-> p, content |-> Png(image)]}
                    ELSE files
              r == Screenshots_add(screenshots, p, image, fs)
          IN  /\ screenshots' = r.self
              /\ files' = r.fs
              /\ raised' = r.raised
              /\ shotLog' = <<<<p, image>>>> \o shotLog
    /\ op' = "Screenshots.add"
    /\ UNCHANGED <<pc, stages_to_test, stages, path, rc, stage, wait, elapsed,
                   slept, executed, ticks, stageLog>>

\* stages.add(stage)
HistoryAddStage ==
    /\ UNCHANGED <<condition, met, command>>
    /\ pc = "history"
    /\ Len(stageLog) < MaxAdds
    /\ \E stg \in HistoryStages :
          /\ stages' = Stages_add(stages, stg)
          /\ stageLog' = <<stg>> \o stageLog
    /\ op' = "Stages.add"
    /\ UNCHANGED <<pc, stages_to_test, screenshots, files, path, rc, stage,
                   raised, wait, elapsed, slept, executed, ticks, shotLog>>

NextHistory ==
    \/ HistoryAddScreenshot
    \/ HistoryAddStage

SpecHistory == InitHistory /\ [][NextHistory]_vars

-----------------------------------------------------------------------------
(* get_current_stage called on any registry and any histories *)

ClassifyStages ==
    { UnknownStage, AlwaysFalseStage, Stage("NextEpisodeStage"),
      Stage("AnotherAdStage"), Stage("BankStage"), Stage("BankTimerStage") }

\* the daily bonus screen with the check mark region
DailyBonusFrame == Paint(Noise, create_references["ic/daily_bonus"], 0, 0, 2560, 1600)

\* the daily bonus screen without it
DailyBonusNotForFriendFrame ==
    Paint(Noise, create_references["ic/daily_bonus"], 800, 1060, 1030, 108)

\* the start screen showing the start bonus as well
StartBonusFrame ==
    Paint(StartFrame, create_references["ic/start_bonus"], 503, 1363, 31, 112)

ClassifyImages ==
    {Noise, Noise2, NextEpisodeFrame, AnotherAdFrame, BankFrame, BankTimerFrame,
     DailyBonusFrame, DailyBonusNotForFriendFrame, StartFrame, StartBonusFrame}

RECURSIVE SeqsUpTo(_, _)
\* the sequences over S of length at most n
SeqsUpTo(S, n) ==
    IF n = 0 THEN {<<>>}
    ELSE LET shorter == SeqsUpTo(S, n - 1)
         IN  shorter \cup {<<x>> \o q : x \in S, q \in {t \in shorter : Len(t) = n - 1}}

ClassifyRegistries ==
    SeqsUpTo(ClassifyStages, MaxRegistry)
        \cup {ic_get_stages_to_test, mlp_get_stages_to_test, ic_without_fallback}

\* screenshot histories of 0, 1 and 2 entries (Screenshots(2), paths '')
ClassifyScreenshots ==
    { [_screenshots |-> [i \in 1..Len(q) |-> <<EmptyPath, q[i]>>], _max_count |-> 2] :
        q \in SeqsUpTo(ClassifyImages, 2) }

ClassifyStageHistories ==
    { Stages(2),
      [_stages |-> <<UnknownStage>>, _max_count |-> 2],
      [_stages |-> <<Stage("StartStage"), UnknownStage>>, _max_count |-> 2] }

InitClassify ==
    /\ condition = None
    /\ met = FALSE
    /\ command = None
    /\ pc = "call"
    /\ stages_to_test \in ClassifyRegistries
    /\ screenshots \in ClassifyScreenshots
    /\ stages \in ClassifyStageHistories
    /\ files = {}
    /\ path = None
    /\ rc = 0
    /\ stage = None
    /\ raised = NoException
    /\ wait = 0
    /\ elapsed = 0
    /\ slept = 0
    /\ executed = <<>>
    /\ ticks = 0
    /\ op = "init"
    /\ shotLog = <<>>
    /\ stageLog = <<>>

\* result = get_current_stage(stages_to_test, screenshots, stages)
CallGetCurrentStage ==
    /\ UNCHANGED <<condition, met, command>>
    /\ pc = "call"
    /\ LET r == get_current_stage(stages_to_test, screenshots, stages)
       IN  /\ stage' = r.ret
           /\ raised' = r.raised
    /\ pc' = "done"
    /\ op' = "get_current_stage"
    /\ UNCHANGED <<stages_to_test, screenshots, stages, files, path, rc, wait,
                   elapsed, slept, executed, ticks, shotLog, stageLog>>

NextClassify == CallGetCurrentStage

SpecClassify == InitClassify /\ [][NextClassify]_vars

-----------------------------------------------------------------------------
(* Properties *)

\* the value of the condition of the stage at position i of the registry
ConditionAt(i) == is_met(get_condition(stages_to_test[i]), screenshots, stages)

ConditionTrue(i) == ConditionAt(i).raised = NoException /\ ConditionAt(i).ret

ConditionFalse(i) == ConditionAt(i).raised = NoException /\ ~ConditionAt(i).ret

Positions == 1..Len(stages_to_test)

IsFallback(stg) == get_condition(stg) = TrueCondition

NoStageMet == \A i \in Positions : ConditionFalse(i)

\* C1: get_current_stage returns the first stage, in registration order,
\* whose condition is true: a returned stage stands at a position whose
\* condition is true and before which no condition is true, and when the
\* conditions up to the first true one evaluate, the stage at that position
\* is returned.
C1_FirstMatchReturned ==
    pc = "done" =>
        /\ raised = NoException =>
              \E i \in Positions :
                 /\ stage = stages_to_test[i]
                 /\ ConditionTrue(i)
                 /\ \A k \in 1..(i - 1) : ~ConditionTrue(k)
        /\ \A i \in Positions :
              (ConditionTrue(i) /\ \A k \in 1..(i - 1) : ConditionFalse(k))
                 => (raised = NoException /\ stage = stages_to_test[i])

\* two different stages with true conditions are registered, the earlier is returned
C1_Witness ==
    /\ pc = "done"
    /\ raised = NoException
    /\ \E i, j \in Positions :
          /\ i < j
          /\ ConditionTrue(i) /\ ConditionTrue(j)
          /\ stages_to_test[i] # stages_to_test[j]
          /\ ~IsFallback(stages_to_test[i])
          /\ stage = stages_to_test[i]

\* C2: with an always-true fallback stage in the registry, get_current_stage
\* returns a stage and does not raise, for every screenshot history (also
\* one of 0 or 1 entries) and every stage history.
C2_FallbackNeverFails ==
    (pc = "done" /\ \E i \in Positions : IsFallback(stages_to_test[i]))
        => (raised = NoException /\ stage # None)

\* C3: when every non-fallback stage's condition is false and an always-true
\* fallback is registered, get_current_stage returns the fallback; so it does
\* for [AlwaysFalseStage, fallback] on any input, and for the ic rule set on
\* two differing screenshots that show nothing known.
C3_FallbackReturned ==
    pc = "done" =>
        /\ ( /\ \E i \in Positions : IsFallback(stages_to_test[i])
             /\ \A i \in Positions :
                   ~IsFallback(stages_to_test[i]) => ConditionFalse(i) )
              => (raised = NoException /\ IsFallback(stage))
        /\ stages_to_test = <<AlwaysFalseStage, UnknownStage>>
              => (raised = NoException /\ stage = UnknownStage)
        /\ ( /\ stages_to_test = ic_get_stages_to_test
             /\ Len(screenshots._screenshots) = 2
             /\ {screenshots._screenshots[1][2], screenshots._screenshots[2][2]}
                   = {Noise, Noise2} )
              => (raised = NoException /\ stage = UnknownStage)

\* the ic rule set classified two differing unknown screenshots
C3_Witness ==
    /\ pc = "done"
    /\ stages_to_test = ic_get_stages_to_test
    /\ Len(screenshots._screenshots) = 2
    /\ screenshots._screenshots[1][2] # screenshots._screenshots[2][2]
    /\ \A i \in Positions : ~IsFallback(stages_to_test[i]) => ConditionFalse(i)
    /\ stage = UnknownStage

\* C4: when no registered stage's condition is true and no fallback is
\* registered, classification raises RuntimeError (no stage value is
\* produced), and the control loop stops: no further tick starts.
C4_NoMatchIsFatal ==
    [][ /\ (pc = "added" /\ NoStageMet)
            => (pc' = "raised" /\ raised' = "RuntimeError" /\ stage' = None)
        /\ (pc \in {"raised", "exited"})
            => (pc' \in {"raised", "exited"} /\ ticks' = ticks /\ raised' = raised)
      ]_vars

\* the loop has ended on the classification error after an earlier full tick
C4_Witness ==
    /\ pc = "exited"
    /\ raised = "RuntimeError"
    /\ ticks < MaxTicks
    /\ Len(stages._stages) > 0

\* the last Screenshots.add call returned (it did not raise)
LastAddReturned == raised = NoException

\* C5: after any sequence of Screenshots.add calls the history holds at most
\* max_count entries, exactly the most recently added ones, newest first;
\* last is the newest image and previous the one added just before it
\* (None when fewer than two entries are retained).
C5_ScreenshotsBounded ==
    (pc = "history" /\ LastAddReturned) =>
        /\ Len(screenshots._screenshots) <= screenshots._max_count
        /\ screenshots._screenshots = Take(shotLog, screenshots._max_count)
        /\ Screenshots_last(screenshots)
              = IF Len(shotLog) >= 1 THEN shotLog[1][2] ELSE None
        /\ Screenshots_previous(screenshots)
              = IF Len(shotLog) >= 2 /\ screenshots._max_count >= 2
                THEN shotLog[2][2] ELSE None

\* entries were evicted and the two newest images differ
C5_Witness ==
    /\ pc = "history"
    /\ LastAddReturned
    /\ Len(shotLog) > screenshots._max_count
    /\ screenshots._max_count >= 2
    /\ Screenshots_last(screenshots) # Screenshots_previous(screenshots)

\* C6: after any sequence of Stages.add calls the history holds at most
\* max_count stages, exactly the most recently added ones, newest first, and
\* Stages.add removes no file.
C6_StagesBounded ==
    [][ (pc' = "history") =>
           /\ Len(stages'._stages) <= stages'._max_count
           /\ stages'._stages = Take(stageLog', stages'._max_count)
           /\ (op' = "Stages.add" /\ stageLog' # stageLog) => files' = files
      ]_vars

\* stages were evicted while screenshot files were stored
C6_Witness ==
    /\ pc = "history"
    /\ op = "Stages.add"
    /\ Len(stageLog) > stages._max_count
    /\ stageLog[1] # stageLog[2]
    /\ files # {}

\* C7: when ./grab returns a non-zero status the tick performs no
\* classification and no device command, leaves both histories and the
\* files unchanged, returns a wait of TICK_INTERVAL, and the loop sleeps it.
C7_FailedCaptureSkipsTick ==
    [][ /\ (pc = "grabbed" /\ rc # 0)
            => /\ pc' = "returned"
               /\ wait' = TICK_INTERVAL
               /\ op' # "get_current_stage"
               /\ stage' = None
               /\ executed' = <<>>
               /\ screenshots' = screenshots
               /\ stages' = stages
               /\ files' = files
               /\ shotLog' = shotLog /\ stageLog' = stageLog
        /\ (pc = "returned" /\ rc # 0)
            => (pc' = "run" /\ slept' = TICK_INTERVAL /\ screenshots' = screenshots
                /\ stages' = stages /\ files' = files)
      ]_vars

\* a capture failed after earlier ticks had filled the histories
C7_Witness ==
    /\ pc = "returned"
    /\ rc # 0
    /\ wait = TICK_INTERVAL
    /\ Len(screenshots._screenshots) > 0
    /\ Len(stages._stages) > 0

\* C8: a capture that exits with status 0 but leaves no output file is
\* handled like a non-zero status (classification skipped, full interval
\* waited, next tick follows); no capture failure terminates the loop.
C8_MissingOutputRecoverable ==
    [][ (pc = "grabbed" /\ (rc # 0 \/ ~exists(files, Path(ticks))))
            => /\ pc' = "returned"
               /\ wait' = TICK_INTERVAL
               /\ raised' = NoException
               /\ screenshots' = screenshots
               /\ stages' = stages
      ]_vars

\* C9: when a stage is recognized it is appended to the Stage History, its
\* command is executed, handle_tick returns TICK_INTERVAL whatever time the
\* tick took, and the loop sleeps exactly TICK_INTERVAL.
C9_FullIntervalAfterStage ==
    [][ /\ (pc = "classified" /\ stage # None /\ pc' = "returned")
            => /\ stageLog' = <<stage>> \o stageLog
               /\ Stages_get_by_index(stages', 0) = stage
               /\ \E adb \in AdbOutcomes :
                     executed' = execute(get_command(stage, stages'), adb).calls
               /\ wait' = TICK_INTERVAL
        /\ (pc = "returned" /\ stage # None)
            => (pc' = "run" /\ slept' = TICK_INTERVAL)
      ]_vars

\* a tick whose command waited for minutes still returns the full interval
C9_Witness ==
    /\ pc = "returned"
    /\ stage # None
    /\ elapsed > TICK_INTERVAL
    /\ \E i \in 1..Len(executed) : executed[i].call = "sleep"
    /\ wait = TICK_INTERVAL

\* C10 as stated: when classification yields no match the tick completes
\* normally, handle_tick returning TICK_INTERVAL minus the elapsed time.
C10_NoMatchCompletesTick ==
    [][ /\ (pc = "added" /\ NoStageMet) => (pc' = "classified" /\ stage' = None)
        /\ (pc = "classified" /\ stage = None)
            => (pc' = "returned" /\ wait' = TICK_INTERVAL - elapsed)
      ]_vars

\* C10 amended: when classification yields no match, get_current_stage raises
\* RuntimeError, handle_tick returns no wait and the loop neither sleeps nor
\* starts another tick; handle_tick never sees a None stage, so every wait it
\* returns is exactly TICK_INTERVAL, never TICK_INTERVAL minus the elapsed time.
C10_NoMatchEndsLoop ==
    [][ /\ (pc = "added" /\ NoStageMet)
            => (pc' = "raised" /\ wait' = wait /\ slept' = slept /\ ticks' = ticks)
        /\ (pc' = "classified") => (stage' # None)
        /\ (pc' = "returned") => (wait' = TICK_INTERVAL)
        /\ (pc = "returned") => (slept' = TICK_INTERVAL)
      ]_vars

\* classification found no match in a tick that had already taken time
C10_Witness ==
    /\ pc = "raised"
    /\ raised = "RuntimeError"
    /\ NoStageMet
    /\ elapsed > 0

(***************************************************************************)
(* Tick cadence.  The start of a tick is the `now` handle_tick takes on    *)
(* entry; `elapsed` at pc = "returned" is the time from that start to      *)
(* handle_tick's return, and the next tick starts after the sleep of run.  *)
(***************************************************************************)

\* C11 as stated: the starts of two successive ticks are TICK_INTERVAL apart,
\* the time spent inside a tick never pushing the next start later than
\* tick start + TICK_INTERVAL.
C11_StartsOneIntervalApart ==
    [][ (pc = "returned") => (elapsed + slept' <= TICK_INTERVAL) ]_vars

\* C11 amended: the next tick starts TICK_INTERVAL after handle_tick returns,
\* so two successive starts are the time spent in the tick plus TICK_INTERVAL
\* apart: never less than TICK_INTERVAL, and later than tick start +
\* TICK_INTERVAL by exactly the time capture, classification and command
\* execution took.
C11_StartsIntervalPlusTickTime ==
    [][ (pc = "returned")
            => /\ pc' = "run"
               /\ elapsed + slept' = elapsed + TICK_INTERVAL
               /\ elapsed + slept' >= TICK_INTERVAL
               /\ (elapsed > 0) => (elapsed + slept' > TICK_INTERVAL)
      ]_vars

\* a tick that took time, but less than the interval, is about to sleep
C11_Witness ==
    /\ pc = "returned"
    /\ elapsed \in 1..(TICK_INTERVAL - 1)
    /\ wait = TICK_INTERVAL
    /\ raised = NoException

(***************************************************************************)
(* Command production and execution on their own: a stage of a rule set    *)
(* is asked for its command on a stage history, as test.py does with       *)
(* stage.get_command(Stages(1)), and the command is executed.              *)
(***************************************************************************)

\* the longest stage history handed to get_command
MaxPrevious == 2

\* every stage of the ic and of the mlp rule set
CommandStages ==
    {ic_get_stages_to_test[i] : i \in 1..Len(ic_get_stages_to_test)}
        \cup {mlp_get_stages_to_test[i] : i \in 1..Len(mlp_get_stages_to_test)}

\* the stages a history handed to get_command is made of
CommandHistoryStages ==
    {s \in CommandStages :
        s.class \in {"BankTimerStage", "UnknownAdStage", "UnityAdStage",
                     "StartStage", "UnknownStage"}}

\* Stages(STAGES_MAX_COUNT) after adding the stages of q, oldest first
CommandStageHistories ==
    { [_stages |-> q, _max_count |-> STAGES_MAX_COUNT] :
        q \in SeqsUpTo(CommandHistoryStages, MaxPrevious) }

InitCommand ==
    /\ condition = None
    /\ met = FALSE
    /\ command = None
    /\ pc = "get_command"
    /\ stage \in CommandStages
    /\ stages \in CommandStageHistories
    /\ stages_to_test = <<>>
    /\ screenshots = Screenshots(SCREENSHOTS_MAX_COUNT)
    /\ files = {}
    /\ path = None
    /\ rc = 0
    /\ raised = NoException
    /\ wait = 0
    /\ elapsed = 0
    /\ slept = 0
    /\ executed = <<>>
    /\ ticks = 0
    /\ op = "init"
    /\ shotLog = <<>>
    /\ stageLog = <<>>

\* command = stage.get_command(stages)
CallGetCommand ==
    /\ pc = "get_command"
    /\ command' = get_command(stage, stages)
    /\ pc' = "execute"
    /\ op' = "get_command"
    /\ UNCHANGED <<stages_to_test, screenshots, stages, files, path, rc, stage,
                   raised, wait, elapsed, slept, executed, ticks, shotLog,
                   stageLog, condition, met>>

\* command.execute()
CallExecute ==
    /\ pc = "execute"
    /\ \E adb \in AdbOutcomes :
          LET res == IF command = None
                     THEN [calls |-> <<>>, slept |-> 0, raised |-> "AttributeError"]
                     ELSE execute(command, adb)
          IN  /\ executed' = res.calls
              /\ elapsed' = res.slept
              /\ raised' = res.raised
    /\ pc' = "executed"
    /\ op' = "execute"
    /\ UNCHANGED <<stages_to_test, screenshots, stages, files, path, rc, stage,
                   wait, slept, ticks, shotLog, stageLog, condition, met,
                   command>>

NextCommand == CallGetCommand \/ CallExecute

SpecCommand == InitCommand /\ [][NextCommand]_vars

\* the call is what executing the command alone performs, whatever its status
Performs(call, cmd) ==
    \E status \in {"ok", "failed"} :
        LET alone == execute(cmd, [k \in 1..MaxCalls |-> status]).calls
        IN  /\ Len(alone) = 1
            /\ alone[1].call = call.call
            /\ IF call.call = "adb"
               THEN alone[1].argv = call.argv
               ELSE alone[1].seconds = call.seconds

\* C12: BatchCommand.execute runs every sub-command exactly once in
\* declaration order, also when the device call of an earlier sub-command
\* fails or cannot be run.
C12_BatchRunsEverySubCommand ==
    (pc = "executed" /\ command.class = "BatchCommand")
        => /\ raised = NoException
           /\ Len(executed) = Len(command._commands)
           /\ \A i \in 1..Len(executed) : Performs(executed[i], command._commands[i])

\* C13: when the backing file of an evicted screenshot cannot be deleted,
\* Screenshots.add still completes with the new entry at the front and at
\* most max_count entries, and the tick goes on to classification.
C13_DeletionFailureRecoverable ==
    [][ (pc = "grabbed" /\ path # None /\ exists(files, path))
            => /\ pc' = "added"
               /\ raised' = NoException
               /\ Len(screenshots'._screenshots) <= screenshots'._max_count
               /\ screenshots'._screenshots[1][1] = path
      ]_vars

\* the two ad stage classes BankTimerStage.get_command looks for
AdStageClasses == {"UnknownAdStage", "UnityAdStage"}

\* the batch BankTimerStage returns after an ad
PowerOffFor30Minutes ==
    BatchCommand(<< TogglePowerCommand, WaitCommand(timedelta_minutes(30)) >>)

\* C14 as stated: BankTimerStage.get_command on a stage history that consists
\* of a single ad stage returns the power toggle followed by the 30-minute
\* wait, not the direct tap.
C14_SingleAdStageWaits ==
    (/\ pc \in {"execute", "executed"}
     /\ stage.class = "BankTimerStage"
     /\ Len(stages._stages) = 1
     /\ stages._stages[1].class \in AdStageClasses)
        => command = PowerOffFor30Minutes

\* C14 amended: BankTimerStage.get_command reads the entry at index 1 of the
\* history (the stage before the newest one): when that entry is an ad
\* stage, as in [BankTimerStage, AdStage], it returns the power toggle
\* followed by the 30-minute wait; on a history of a single stage, an ad stage
\* included, there is no such entry and it returns the direct tap.
C14_StageBeforeNewestDecides ==
    (pc \in {"execute", "executed"} /\ stage.class = "BankTimerStage")
        => /\ (Len(stages._stages) >= 2 /\ stages._stages[2].class \in AdStageClasses)
                => command = PowerOffFor30Minutes
           /\ (Len(stages._stages) < 2) => command = ClickCommand(1478, 446)

\* the 30-minute batch was returned for [BankTimerStage, UnityAdStage] and ran
C14_Witness ==
    /\ pc = "executed"
    /\ stage.class = "BankTimerStage"
    /\ Len(stages._stages) = 2
    /\ stages._stages[1].class = "BankTimerStage"
    /\ stages._stages[2].class = "UnityAdStage"
    /\ command = PowerOffFor30Minutes
    /\ \E i \in 1..Len(executed) :
          executed[i].call = "sleep" /\ executed[i].seconds = 1800

\* C20: the ic and the mlp rule set end with the always-true UnknownStage,
\* no earlier stage of either being a fallback, and every stage of either rule
\* set returns a command, never None, from get_command on a stage history of
\* fewer than two stages.
C20_FallbackLastAndCommandAlways ==
    /\ \A registry \in {ic_get_stages_to_test, mlp_get_stages_to_test} :
          /\ registry[Len(registry)] = UnknownStage
          /\ get_condition(registry[Len(registry)]) = TrueCondition
          /\ \A i \in 1..(Len(registry) - 1) :
                get_condition(registry[i]) # TrueCondition
    /\ (pc \in {"execute", "executed"} /\ Len(stages._stages) < 2)
          => /\ command # None
             /\ command.class \in {"NoOpCommand", "BatchCommand", "StartGameCommand",
                                   "StopGameCommand", "ClickCommand",
                                   "TogglePowerCommand", "WaitCommand"}

\* BankTimerStage returned its tap on the empty history of Stages(1)
C20_Witness ==
    /\ pc = "executed"
    /\ stage.class = "BankTimerStage"
    /\ stages._stages = <<>>
    /\ command = ClickCommand(1478, 446)

(***************************************************************************)
(* Conditions on their own: condition.is_met(screenshots, stages) on       *)
(* histories built as test.py builds them.                                 *)
(***************************************************************************)

\* frames that differ from Noise inside the region (0, 0, 50, 50) only, and
\* at the pixel (45, 45) only
ConditionImages ==
    {Noise, Noise2, Paint(Noise, Noise2, 0, 0, 50, 50), Paint(Noise, Noise2, 45, 45, 6, 6)}

ConditionReferences == {Noise, Paint(Noise, Noise2, 45, 45, 6, 6)}

\* (left, top, width, height): the region of spec scenario C, a region that
\* ends just before the pixel (45, 45), mlp's smallest region, the whole screen
ConditionRectangles ==
    { <<0, 0, 50, 50>>, <<0, 0, 45, 45>>, <<45, 45, 6, 6>>, <<0, 0, 2560, 1600>> }

SimilarConditions ==
    { SimilarScreenshotCondition(reference, r[1], r[2], r[3], r[4]) :
        reference \in ConditionReferences, r \in ConditionRectangles }

\* the sub-conditions the combinators are built from
SubConditions ==
    { TrueCondition, FalseCondition, SameScreenshotCondition,
      SimilarScreenshotCondition(Noise, 0, 0, 50, 50) }

Conditions ==
    SimilarConditions \cup SubConditions
        \cup {NotCondition(c) : c \in SubConditions}
        \cup {NotCondition(NotCondition(c)) : c \in SubConditions}
        \cup {AndCondition(cs) : cs \in SeqsUpTo(SubConditions, 2)}
        \cup {OrCondition(cs) : cs \in SeqsUpTo(SubConditions, 2)}

\* Screenshots(SCREENSHOTS_MAX_COUNT) after up to MaxAdds add('', image) calls
ConditionScreenshots ==
    { [_screenshots |-> [i \in 1..Len(q) |-> <<EmptyPath, q[i]>>],
       _max_count |-> SCREENSHOTS_MAX_COUNT] :
        q \in SeqsUpTo(ConditionImages, MaxAdds) }

ConditionStageHistories ==
    { Stages(1), [_stages |-> <<UnknownStage>>, _max_count |-> 1] }

InitCondition ==
    /\ pc = "is_met"
    /\ condition \in Conditions
    /\ screenshots \in ConditionScreenshots
    /\ stages \in ConditionStageHistories
    /\ met = FALSE
    /\ command = None
    /\ stages_to_test = <<>>
    /\ files = {}
    /\ path = None
    /\ rc = 0
    /\ stage = None
    /\ raised = NoException
    /\ wait = 0
    /\ elapsed = 0
    /\ slept = 0
    /\ executed = <<>>
    /\ ticks = 0
    /\ op = "init"
    /\ shotLog = <<>>
    /\ stageLog = <<>>

\* met = condition.is_met(screenshots, stages)
CallIsMet ==
    /\ pc = "is_met"
    /\ LET r == is_met(condition, screenshots, stages)
       IN  /\ raised' = r.raised
           /\ met' = IF r.raised = NoException THEN r.ret ELSE met
    /\ pc' = "evaluated"
    /\ op' = "is_met"
    /\ UNCHANGED <<stages_to_test, screenshots, stages, files, path, rc, stage,
                   wait, elapsed, slept, executed, ticks, shotLog, stageLog,
                   condition, command>>

NextCondition == CallIsMet

SpecCondition == InitCondition /\ [][NextCondition]_vars

\* the images of the screenshot history, newest first
Shots == [i \in 1..Len(screenshots._screenshots) |-> screenshots._screenshots[i][2]]

\* C15: SameScreenshotCondition returns false, without failing, on a history
\* of 0 or 1 screenshots; on a history of 2 or more it returns true exactly
\* when the two newest screenshots are equal pixel by pixel, whatever the
\* older entries and the stage history are.
C15_SameComparesTwoNewest ==
    (pc = "evaluated" /\ condition = SameScreenshotCondition)
        => /\ raised = NoException
           /\ (Len(Shots) < 2) => ~met
           /\ (Len(Shots) >= 2)
                => (met <=> \A p \in Pixels : Shots[1].px[p] = Shots[2].px[p])

\* true on two equal newest screenshots above a different older one
C15_Witness ==
    /\ pc = "evaluated"
    /\ condition = SameScreenshotCondition
    /\ Len(Shots) = 3
    /\ Shots[1] = Shots[2]
    /\ Shots[3] # Shots[1]
    /\ stages._stages # <<>>
    /\ met

\* C16: SimilarScreenshotCondition.is_met and SameScreenshotCondition.is_met
\* on an empty screenshot history and an empty stage history return false
\* rather than failing.
C16_SafeOnEmptyHistory ==
    (/\ pc = "evaluated"
     /\ condition.class \in {"SimilarScreenshotCondition", "SameScreenshotCondition"}
     /\ Shots = <<>>
     /\ stages._stages = <<>>)
        => (raised = NoException /\ ~met)

\* the pixel lies inside the rectangle (left, top, width, height)
Inside(p, c) ==
    /\ c._left <= p[1] /\ p[1] < c._left + c._width
    /\ c._top <= p[2] /\ p[2] < c._top + c._height

\* C17: on a history with a newest screenshot, SimilarScreenshotCondition
\* returns true exactly when every pixel of the newest screenshot inside the
\* rectangle equals the reference's pixel at that position; pixels outside
\* the rectangle and older screenshots do not matter.
C17_SimilarComparesRegion ==
    (pc = "evaluated" /\ condition.class = "SimilarScreenshotCondition" /\ Len(Shots) >= 1)
        => /\ raised = NoException
           /\ met <=> \A p \in Pixels :
                         Inside(p, condition) => Shots[1].px[p] = condition._reference.px[p]
           /\ (Shots[1] = condition._reference) => met

\* true although the newest screenshot differs from the reference outside the
\* rectangle and the older screenshot differs from it inside
C17_Witness ==
    /\ pc = "evaluated"
    /\ condition.class = "SimilarScreenshotCondition"
    /\ Len(Shots) = 2
    /\ met
    /\ \E p \in Pixels : ~Inside(p, condition) /\ Shots[1].px[p] # condition._reference.px[p]
    /\ \E p \in Pixels : Inside(p, condition) /\ Shots[2].px[p] # condition._reference.px[p]

\* the sub-condition returns a truth value on the current histories
Evaluates(c) == is_met(c, screenshots, stages).raised = NoException

\* the truth value the sub-condition returns on the current histories
Holds(c) == is_met(c, screenshots, stages).ret

\* C18: over sub-conditions that return truth values, AndCondition is true
\* exactly when all of them are true, OrCondition exactly when at least one
\* is, NotCondition is the negation of its sub-condition, Not(Not(c)) returns
\* what c returns, TrueCondition is true; evaluating leaves both histories
\* as they were.
C18_CombinatorsAreBoolean ==
    [][ (pc = "is_met")
            => /\ screenshots' = screenshots /\ stages' = stages
               /\ (condition = TrueCondition) => (raised' = NoException /\ met')
               /\ (condition.class = "NotCondition" /\ Evaluates(condition._condition))
                    => /\ raised' = NoException
                       /\ met' = ~Holds(condition._condition)
               /\ (/\ condition.class = "NotCondition"
                   /\ condition._condition.class = "NotCondition"
                   /\ Evaluates(condition._condition._condition))
                    => /\ raised' = NoException
                       /\ met' = Holds(condition._condition._condition)
               /\ (/\ condition.class \in {"AndCondition", "OrCondition"}
                   /\ \A i \in 1..Len(condition._conditions) :
                         Evaluates(condition._conditions[i]))
                    => /\ raised' = NoException
                       /\ (condition.class = "AndCondition")
                            => (met' <=> \A i \in 1..Len(condition._conditions) :
                                            Holds(condition._conditions[i]))
                       /\ (condition.class = "OrCondition")
                            => (met' <=> \E i \in 1..Len(condition._conditions) :
                                            Holds(condition._conditions[i]))
      ]_vars

\* an AndCondition of a true and a false sub-condition returned false
C18_Witness ==
    /\ pc = "evaluated"
    /\ condition.class = "AndCondition"
    /\ Len(condition._conditions) = 2
    /\ Holds(condition._conditions[1])
    /\ Evaluates(condition._conditions[2])
    /\ ~Holds(condition._conditions[2])
    /\ raised = NoException
    /\ ~met

(***************************************************************************)
(* The control loop while every external call returns: ./grab exits with   *)
(* a usable image written or with a non-zero status, os.remove deletes     *)
(* the file, adb runs.  run is one thread: a step that can be taken is     *)
(* taken, which is the weak fairness of the next-state action.             *)
(***************************************************************************)

\* run with the ic rule set, fallback included
InitReturning == Init /\ stages_to_test = ic_get_stages_to_test

\* ./grab returned: status 0 and the image written, or a non-zero status
GrabReturning == Grab /\ (path' # None => exists(files', path'))

\* create_image and every os.remove of Screenshots.add returned
AddScreenshotReturning == AddScreenshot /\ raised' = NoException

\* every `call` of the command returned
ActReturning == Act /\ raised' = NoException

NextReturning ==
    \/ GrabReturning
    \/ ReturnNoPath
    \/ AddScreenshotReturning
    \/ Classify
    \/ ActReturning
    \/ Sleep

\* run lines 360-369 and handle_tick lines 342-357 as control flow: the
\* position that follows each position while every call returns
Advance ==
    \/ pc = "run" /\ ticks < MaxTicks /\ pc' = "grabbed"
    \/ pc = "grabbed" /\ pc' \in {"returned", "added"}
    \/ pc = "added" /\ pc' = "classified"
    \/ pc = "classified" /\ pc' = "returned"
    \/ pc = "returned" /\ pc' = "run"

\* the thread executes the statement it stands at
SpecReturning == InitReturning /\ [][NextReturning]_vars /\ WF_pc(Advance)

\* C19: with a fallback stage registered and every external call returning,
\* the loop never ends, and as long as fewer than MaxTicks ticks have started
\* another capture attempt follows, so that the MaxTicks-th capture attempt
\* is eventually made.
C19_LoopNeverStops ==
    /\ [](pc \notin {"raised", "exited"})
    /\ (ticks < MaxTicks) ~> (ticks = MaxTicks /\ pc = "grabbed")

\* a capture attempt that follows a tick which executed a command and slept
C19_Witness ==
    /\ pc = "grabbed"
    /\ op = "grab_screenshot"
    /\ ticks >= 2
    /\ slept = TICK_INTERVAL
    /\ stageLog # <<>>
    /\ stages_to_test = ic_get_stages_to_test

\* C21: Stages.previous is the stage added just before the newest one, and
\* None when fewer than two stages are retained; after adding UnknownStage
\* and then StartStage to Stages(2) it is the UnknownStage.
C21_PreviousIsSecondNewest ==
    (pc = "history")
        => /\ (Len(stages._stages) >= 2) => Stages_previous(stages) = stageLog[2]
           /\ (Len(stages._stages) < 2) => Stages_previous(stages) = None
           /\ (stageLog = <<Stage("StartStage"), UnknownStage>> /\ stages._max_count = 2)
                => Stages_previous(stages) = UnknownStage

\* three stages were added to a history that retains more than one, the one
\* added second being the previous one
C21_Witness ==
    /\ pc = "history"
    /\ op = "Stages.add"
    /\ Len(stageLog) = 3
    /\ Len(stages._stages) >= 2
    /\ stageLog[1] # stageLog[2]
    /\ stageLog[3] # stageLog[2]
    /\ Stages_previous(stages) = stageLog[2]

RECURSIVE SecondsSlept(_, _)
\* the seconds of the sleeps among the calls from position i on
SecondsSlept(calls, i) ==
    IF i > Len(calls) THEN 0
    ELSE (IF calls[i].call = "sleep" THEN calls[i].seconds ELSE 0)
            + SecondsSlept(calls, i + 1)

\* C22: within a tick the steps are taken in the order capture, append to the
\* screenshot history, classify, append to the stage history, produce and
\* execute the command, sleep; a capture starts only from the top of the loop
\* (after the previous tick's sleep), a classification only after this tick's
\* append, and the sleep only after the command, its embedded wait included.
C22_StepsInOrder ==
    [][ /\ (ticks' # ticks)
            => /\ pc = "run" /\ pc' = "grabbed" /\ ticks' = ticks + 1
               /\ (ticks > 0) => op = "sleep"
        /\ (screenshots' # screenshots)
            => (pc = "grabbed" /\ op = "grab_screenshot" /\ op' = "Screenshots.add")
        /\ (op' = "get_current_stage")
            => (pc = "added" /\ op = "Screenshots.add" /\ ticks' = ticks)
        /\ (stages' # stages)
            => /\ pc = "classified" /\ op = "get_current_stage"
               /\ stages'._stages[1] = stage
        /\ (executed' # executed /\ executed' # <<>>)
            => /\ pc = "classified"
               /\ stages'._stages[1] = stage
               /\ \E adb \in AdbOutcomes :
                     executed' = execute(get_command(stage, stages'), adb).calls
               /\ elapsed' = elapsed + SecondsSlept(executed', 1)
        /\ (op' = "sleep")
            => /\ pc = "returned" /\ op \in {"grab_screenshot", "handle_tick"}
               /\ elapsed >= SecondsSlept(executed, 1)
               /\ pc' = "run" /\ ticks' = ticks
      ]_vars

\* the loop is back at its top after a tick that waited 10 minutes and slept
C22_Witness ==
    /\ pc = "run"
    /\ op = "sleep"
    /\ slept = TICK_INTERVAL
    /\ stageLog # <<>>
    /\ stageLog[1].class = "BankNoButtonStage"
    /\ ticks < MaxTicks

\* the position of the stage of that class in the registry
IndexOf(registry, class) == CHOOSE i \in 1..Len(registry) : registry[i].class = class

\* C24 as stated: the ic rule set checks BankTimerStage before BankStage.
C24_TimerBeforeBank ==
    (pc = "done" /\ stages_to_test = ic_get_stages_to_test)
        => IndexOf(stages_to_test, "BankTimerStage") < IndexOf(stages_to_test, "BankStage")

\* C24 amended: the ic rule set checks BankStage (the bank with its confirm
\* button) immediately before BankTimerStage; BankTimerStage's condition
\* conjoins the negation of BankStage's region test, so whenever
\* BankTimerStage is returned BankStage was checked first and was false.
C24_BankBeforeTimer ==
    (stages_to_test = ic_get_stages_to_test)
        => /\ IndexOf(stages_to_test, "BankStage") + 1
                = IndexOf(stages_to_test, "BankTimerStage")
           /\ get_condition(Stage("BankTimerStage"))._conditions[2]
                = NotCondition(get_condition(Stage("BankStage")))
           /\ (pc = "done" /\ stage.class = "BankTimerStage")
                => ConditionFalse(IndexOf(stages_to_test, "BankStage"))

\* the ic rule set returned BankTimerStage for a bank screen without button
C24_Witness ==
    /\ pc = "done"
    /\ stages_to_test = ic_get_stages_to_test
    /\ raised = NoException
    /\ stage.class = "BankTimerStage"
    /\ Screenshots_last(screenshots) = BankTimerFrame

(***************************************************************************)
(* The control loop on the screens the history-dependent rules react to:   *)
(* the start screen, an ad, the bank timer and mlp's ad, under the ic and   *)
(* the mlp rule set.                                                       *)
(***************************************************************************)

\* the ticks followed in this loop
MaxRuleTicks == 4

AdFrame == Paint(Noise, create_references["common/ad"], 998, 1520, 568, 73)

UnityAdFrame == Paint(Noise, create_references["common/ad_unity"], 2366, 636, 84, 302)

\* the screens captured while the rule set of each game runs
RuleFrames ==
    IF stages_to_test = mlp_get_stages_to_test
    THEN {Png(AnotherAdFrame), Png(Noise)}
    ELSE {Png(StartFrame), Png(AdFrame), Png(UnityAdFrame), Png(BankTimerFrame)}

RuleSets == {ic_get_stages_to_test, mlp_get_stages_to_test}

InitRules ==
    /\ condition = None
    /\ met = FALSE
    /\ command = None
    /\ pc = "run"
    /\ stages_to_test \in RuleSets
    /\ screenshots = Screenshots(SCREENSHOTS_MAX_COUNT)
    /\ stages = Stages(STAGES_MAX_COUNT)
    /\ files = {}
    /\ path = None
    /\ rc = 0
    /\ stage = None
    /\ raised = NoException
    /\ wait = 0
    /\ elapsed = 0
    /\ slept = 0
    /\ executed = <<>>
    /\ ticks = 0
    /\ op = "run"
    /\ shotLog = <<>>
    /\ stageLog = <<>>

GrabRules == GrabFrom(RuleFrames, MaxRuleTicks)

NextRules ==
    \/ GrabRules
    \/ ReturnNoPath
    \/ AddScreenshot
    \/ Classify
    \/ Act
    \/ Sleep
    \/ Unwind

SpecRules == InitRules /\ [][NextRules]_vars

\* the stage recognized on the latest earlier successful tick, None if none
PrecedingStage == IF stageLog = <<>> THEN None ELSE stageLog[1]

\* what BankTimerStage is to do after that stage
BankTimerCommandAfter(stg) ==
    IF stg.class \in AdStageClasses
    THEN PowerOffFor30Minutes
    ELSE IF stg.class = "StartStage"
    THEN BatchCommand(<< TogglePowerCommand, WaitCommand(timedelta_minutes(10)) >>)
    ELSE ClickCommand(1478, 446)

\* C23: when the loop recognizes BankTimerStage, the command it executes is
\* decided by the stage recognized on the latest earlier successful tick,
\* which stands at index 1 once the current stage is appended: power toggle
\* and 30-minute wait after an ad stage, power toggle and 10-minute wait after
\* StartStage, the tap otherwise and when there is no earlier stage; ticks
\* whose capture failed in between change nothing.
C23_BankTimerFollowsPrecedingStage ==
    [][ (pc = "classified" /\ stage.class = "BankTimerStage")
            => /\ Stages_get_by_index(stages', 0) = stage
               /\ Stages_get_by_index(stages', 1) = PrecedingStage
               /\ \E adb \in AdbOutcomes :
                     /\ executed' = execute(BankTimerCommandAfter(PrecedingStage), adb).calls
                     /\ raised' = execute(BankTimerCommandAfter(PrecedingStage), adb).raised
      ]_vars

\* the 30-minute wait ran for a bank timer seen two ticks after the ad, the
\* capture of the tick in between having failed
C23_Witness ==
    /\ pc = "returned"
    /\ Len(stageLog) >= 2
    /\ stageLog[1].class = "BankTimerStage"
    /\ stageLog[2].class = "UnknownAdStage"
    /\ shotLog[1][1].uuid = shotLog[2][1].uuid + 2
    /\ \E i \in 1..Len(executed) :
          executed[i].call = "sleep" /\ executed[i].seconds = 1800

\* C25: whenever get_current_stage is about to run in the loop, the
\* screenshot history is non-empty, its newest entry is the frame captured in
\* this tick, and the entry after it, if there is one, is the frame of the
\* latest earlier successful capture.
C25_ClassifiesFreshHistory ==
    (pc = "added")
        => /\ Len(screenshots._screenshots) >= 1
           /\ screenshots._screenshots[1][1] = Path(ticks)
           /\ screenshots._screenshots[1][2] = create_image(content_of(files, Path(ticks)))
           /\ Screenshots_last(screenshots) = shotLog[1][2]
           /\ (Len(shotLog) >= 2)
                => /\ Screenshots_previous(screenshots) = shotLog[2][2]
                   /\ shotLog[2][1].uuid < ticks
                   /\ \A k \in (shotLog[2][1].uuid + 1)..(ticks - 1) :
                         \A i \in 1..Len(shotLog) : shotLog[i][1].uuid # k
           /\ (Len(shotLog) < 2) => Screenshots_previous(screenshots) = None

\* classification is about to run on a frame that differs from the previous
\* one, captured two ticks earlier
C25_Witness ==
    /\ pc = "added"
    /\ Len(shotLog) >= 2
    /\ shotLog[1][1].uuid = shotLog[2][1].uuid + 2
    /\ Screenshots_last(screenshots) # Screenshots_previous(screenshots)
    /\ Screenshots_previous(screenshots) # None

(***************************************************************************)
(* The early monolithic loop, main.py: its scan order and the steps of its *)
(* handle_tick, to be compared with lib/common.py's on the same capture    *)
(* outcome and the same condition results.  Its stages take no arguments.  *)
(***************************************************************************)

main_TICK_INTERVAL == 5

\* main.py STAGES
main_STAGES ==
    << Stage("PowerOffStage"), Stage("DesktopStage"), Stage("DailyBonusStage"),
       Stage("DailyBonusNotForFriendStage"), Stage("DailyRewardStage"),
       Stage("StartBonusStage"), Stage("StartStage"), Stage("BonusStage"),
       Stage("BonusRewardStage"), Stage("BigLuckStage"), Stage("BankStage"),
       Stage("BankTimerStage"), Stage("BankNoButtonStage"), Stage("OfflineStage"),
       Stage("VideoNotAvailableStage"), Stage("UnknownAdStage"),
       Stage("UnityAdStage"), Stage("UnknownStage") >>

\* main.py grab_screenshot: None when ./grab returns a non-zero status
main_grab_screenshot(p, status) == IF status # 0 THEN None ELSE p

\* main.py Screenshots.add
main_Screenshots_add(self, p, screenshot, fs) ==
    LET inserted == <<<<p, screenshot>>>> \o self._screenshots
        removal == remove_all(Drop(inserted, self._max_count), 1, fs)
    IN  IF removal.raised # NoException
        THEN [self |-> [self EXCEPT !._screenshots = inserted],
              fs |-> removal.fs, raised |-> removal.raised]
        ELSE [self |-> [self EXCEPT !._screenshots = Take(inserted, self._max_count)],
              fs |-> removal.fs, raised |-> NoException]

\* main.py Stages.add
main_Stages_add(self, stg) ==
    [self EXCEPT !._stages = Take(<<stg>> \o self._stages, self._max_count)]

RECURSIVE main_get_current_stage_from(_, _, _)
\* main.py get_current_stage from position i on; results[k] is what
\* stage.get_condition().is_met(screenshots, stages) gives for the k-th stage
main_get_current_stage_from(registry, i, results) ==
    IF i > Len(registry)
    THEN Raise("RuntimeError")
    ELSE IF results[i].raised # NoException THEN Raise(results[i].raised)
    ELSE IF results[i].ret THEN Return(registry[i])
    ELSE main_get_current_stage_from(registry, i + 1, results)

main_get_current_stage(registry, results) ==
    main_get_current_stage_from(registry, 1, results)

\* the wait of main.py's handle_tick with the full interval subtracted from
main_handle_tick_wait_remaining(stg, time_spent) == main_TICK_INTERVAL - time_spent

\* main.py handle_tick lines 484-490: the wait returned after classification
main_handle_tick_wait(stg, time_spent) ==
    IF stg # None
    THEN main_TICK_INTERVAL
    ELSE main_TICK_INTERVAL - time_spent

\* the kinds of the stages of a sequence
Kinds(stgs) == [i \in 1..Len(stgs) |-> Stage(stgs[i].class)]

\* C26: main.py's STAGES and lib/ic.py's get_stages_to_test are the same
\* sequence of stage kinds, and every step of lib/common.py's handle_tick on
\* the ic rule set is the step main.py's handle_tick makes on the same
\* capture outcome and the same condition results: same path, same
\* screenshot history and files, same recognized kind or exception, same
\* stage history, same wait.
C26_SameLoopAsMain ==
    [][ (stages_to_test = ic_get_stages_to_test)
            => /\ Kinds(ic_get_stages_to_test) = main_STAGES
               /\ (pc = "run")
                    => path' = main_grab_screenshot(Path(ticks'), rc')
               /\ (pc = "grabbed" /\ path = None)
                    => /\ wait' = main_TICK_INTERVAL
                       /\ screenshots' = screenshots /\ stages' = stages
               /\ (pc = "grabbed" /\ path # None /\ exists(files, path))
                    => \E fs \in SUBSET files :
                          LET r == main_Screenshots_add(screenshots, path,
                                      create_image(content_of(files, path)), fs)
                          IN  /\ screenshots' = r.self
                              /\ files' = r.fs
                              /\ raised' = r.raised
               /\ (pc = "added")
                    => LET r == main_get_current_stage(main_STAGES,
                                    [i \in Positions |-> ConditionAt(i)])
                       IN  /\ raised' = r.raised
                           /\ Stage(stage'.class) = r.ret
               /\ (pc = "classified" /\ stage # None)
                    => /\ Kinds(stages'._stages)
                            = main_Stages_add([stages EXCEPT !._stages = Kinds(@)],
                                              Stage(stage.class))._stages
                       /\ (pc' = "returned")
                            => wait' = main_handle_tick_wait(Stage(stage.class), elapsed')
      ]_vars

\* a tick of the ic rule set recognized the bank timer after the start screen
\* and returned its wait
C26_Witness ==
    /\ pc = "returned"
    /\ stages_to_test = ic_get_stages_to_test
    /\ Len(stageLog) >= 2
    /\ stageLog[1].class = "BankTimerStage"
    /\ stageLog[2].class = "StartStage"
    /\ wait = main_TICK_INTERVAL

\* the storage paths held in the screenshot history
HeldPaths == {screenshots._screenshots[i][1] : i \in 1..Len(screenshots._screenshots)}

\* the files existing in the working directory
ExistingPaths == {f.path : f \in files}

\* C27: while run has not failed, after every tick the files in the working
\* directory are exactly the files of the entries of the screenshot history,
\* so at most SCREENSHOTS_MAX_COUNT exist and no retained entry has lost its
\* file; between a capture and its append the one new file is the only
\* file not yet held.
C27_FilesAreHeldPaths ==
    /\ (pc \in {"run", "added", "classified", "returned"})
          => /\ ExistingPaths = HeldPaths
             /\ Cardinality(files) <= SCREENSHOTS_MAX_COUNT
    /\ (pc = "grabbed")
          => /\ HeldPaths \subseteq ExistingPaths
             /\ ExistingPaths \subseteq HeldPaths \cup {path}

\* a sixth capture was appended and the file of the first one is gone
C27_Witness ==
    /\ pc = "added"
    /\ Len(shotLog) > SCREENSHOTS_MAX_COUNT
    /\ Cardinality(files) = SCREENSHOTS_MAX_COUNT
    /\ shotLog[Len(shotLog)][1] \notin ExistingPaths
    /\ shotLog[1][1] \in ExistingPaths

\* the registry with the stages at positions i and j exchanged
Exchange(registry, i, j) ==
    [k \in 1..Len(registry) |->
        IF k = i THEN registry[j] ELSE IF k = j THEN registry[i] ELSE registry[k]]

\* the ic stage pairs built from a region test and its negation
ExclusivePairs ==
    { <<"BankStage", "BankTimerStage">>,
      <<"DailyBonusStage", "DailyBonusNotForFriendStage">>,
      <<"StartBonusStage", "StartStage">> }

\* C28: on every screenshot history the two conditions of each ic pair built
\* from a region test and its negation are never both true, and the ic rule
\* set with the two stages of such a pair exchanged returns (or raises) what
\* the ic rule set does.
C28_PairsExclusive ==
    (pc = "done" /\ stages_to_test = ic_get_stages_to_test)
        => \A pair \in ExclusivePairs :
              LET i == IndexOf(stages_to_test, pair[1])
                  j == IndexOf(stages_to_test, pair[2])
              IN  /\ ~(ConditionTrue(i) /\ ConditionTrue(j))
                  /\ get_current_stage(Exchange(stages_to_test, i, j), screenshots, stages)
                        = [ret |-> stage, raised |-> raised]

\* the second stage of a pair was returned for a frame that passes the
\* region test the pair shares
C28_Witness ==
    /\ pc = "done"
    /\ stages_to_test = ic_get_stages_to_test
    /\ raised = NoException
    /\ stage.class = "DailyBonusNotForFriendStage"
    /\ Screenshots_last(screenshots) = DailyBonusNotForFriendFrame
    /\ ConditionFalse(IndexOf(stages_to_test, "DailyBonusStage"))

\* the stages whose condition conjoins SameScreenshotCondition
SameScreenshotStages == {"UnknownAdStage", "UnityAdStage", "AnotherAdStage"}

\* C29: when the loop recognizes UnknownAdStage, UnityAdStage or mlp's
\* AnotherAdStage, this tick's capture is not the first successful one since
\* startup and its frame equals, pixel for pixel, the frame of the latest
\* earlier successful capture, whatever number of failed ticks lies between.
C29_SameFrameAsLastSuccess ==
    (pc = "classified" /\ stage # None /\ stage.class \in SameScreenshotStages)
        => /\ Len(shotLog) >= 2
           /\ shotLog[1][1] = Path(ticks)
           /\ shotLog[2][1].uuid < ticks
           /\ \A k \in (shotLog[2][1].uuid + 1)..(ticks - 1) :
                 \A i \in 1..Len(shotLog) : shotLog[i][1].uuid # k
           /\ \A p \in Pixels : shotLog[1][2].px[p] = shotLog[2][2].px[p]

\* UnityAdStage was recognized for a frame equal to the one captured three
\* ticks earlier, the two ticks in between having failed to capture
C29_Witness ==
    /\ pc = "classified"
    /\ stage # None
    /\ stage.class = "UnityAdStage"
    /\ Len(shotLog) = 2
    /\ shotLog[1][1].uuid = shotLog[2][1].uuid + 3
    /\ stageLog # <<>>
    /\ stageLog[1].class # "UnityAdStage"

====
